---- MODULE Spec2Model ----
(***************************************************************************)
(* A model of the K8sNode adapter of forge's k8s backend                   *)
(* (testsuite/forge/src/backend/k8s/node.rs): the endpoint resolver, the   *)
(* lifecycle controller (start, stop, clear_storage), the forwarders        *)
(* (spawn_port_forward, expose_metric) with the kubectl children they      *)
(* leave behind, and the health and counter probes.                        *)
(*                                                                         *)
(* Strings are sequences of one-character strings, so that format!,        *)
(* str::contains and Url parsing are computed character by character.      *)
(***************************************************************************)
EXTENDS Integers, Sequences, FiniteSets, TLC

VARIABLES
    desc,       \* the K8sNode descriptor (the struct's fields)
    replicas,   \* desired replica count of the node's stateful set (cluster)
    healthy,    \* whether the node's REST API answers the liveness request
    pc,         \* position of the caller inside the node's operations
    now,        \* reading of the monotonic clock (seconds)
    deadline,   \* deadline handed to wait_until_healthy by start
    ret,        \* outcome of the operation that returned last
    url,        \* Url returned by the last endpoint accessor
    cmd,        \* command line launched by the last operation
    scaleReqs,  \* every replica count requested so far, with the requester
    call,       \* what the start call in progress has done so far
    children,   \* the forwarder children spawned so far, in spawning order
    obs,        \* what the last operation saw of its child and its requests
    val,        \* number returned by the last operation, <<>> when none
    fixture,    \* what the counters endpoint served to the last counter call
    fwd         \* position of each concurrent spawn_port_forward caller

\* the variables of the forwarders and the probes
procVars == <<children, obs, val, fixture, fwd>>

vars == <<desc, replicas, healthy, pc, now, deadline, ret, url, cmd,
          scaleReqs, call, children, obs, val, fixture, fwd>>

----------------------------------------------------------------------------
(* Text *)

S_http      == <<"h","t","t","p",":","/","/">>
S_slash     == <<"/">>
S_colon     == <<":">>
S_kubectl   == <<"k","u","b","e","c","t","l">>
S_fullnode  == <<"f","u","l","l","n","o","d","e">>
S_fullnod   == <<"f","u","l","l","n","o","d">>
S_ullnode   == <<"u","l","l","n","o","d","e">>
S_full_node == <<"f","u","l","l","-","n","o","d","e">>
S_validator == <<"v","a","l","i","d","a","t","o","r">>
S_fn_       == <<"f","n","-">>
S_dash0     == <<"-","0">>
S_svc       == <<"s","v","c","/">>
S_pvc       == <<"p","v","c">>
S_delete    == <<"d","e","l","e","t","e">>
S_portfwd   == <<"p","o","r","t","-","f","o","r","w","a","r","d">>
S_dash_n    == <<"-","n">>
S_val0      == <<"v","a","l","0">>
S_fn1       == <<"f","n","1","-","l","b">>
S_x         == <<"x">>
S_forge     == <<"f","o","r","g","e">>
S_default   == <<"d","e","f","a","u","l","t">>
S_a_        == <<"a","-">>
S_e         == <<"e">>
S_empty     == <<>>
S_pod       == <<"p","o","d","/">>
S_localhost == <<"l","o","c","a","l","h","o","s","t">>
S_counters  == <<"/","c","o","u","n","t","e","r","s">>

Digits == <<"0","1","2","3","4","5","6","7","8","9">>

\* format!("{}", n) of an unsigned integer: its decimal digits
RECURSIVE ToDecimal(_)
ToDecimal(n) ==
    IF n < 10 THEN <<Digits[n + 1]>>
    ELSE ToDecimal(n \div 10) \o <<Digits[(n % 10) + 1]>>

IsDigit(c) == \E i \in 1..10 : Digits[i] = c

DigitValue(c) == (CHOOSE i \in 1..10 : Digits[i] = c) - 1

\* the number a run of decimal digits denotes
RECURSIVE ParseDecimal(_)
ParseDecimal(s) ==
    IF s = <<>> THEN 0
    ELSE 10 * ParseDecimal(SubSeq(s, 1, Len(s) - 1)) + DigitValue(s[Len(s)])

\* str::contains: pat occurs in s as a contiguous substring
Contains(s, pat) ==
    \E i \in 1..(Len(s) - Len(pat) + 1) : SubSeq(s, i, i + Len(pat) - 1) = pat

StartsWith(s, pat) == Len(s) >= Len(pat) /\ SubSeq(s, 1, Len(pat)) = pat

\* index of the first occurrence of character c in s, Len(s) + 1 when absent
IndexOf(s, c) ==
    IF \E i \in 1..Len(s) : s[i] = c
    THEN CHOOSE i \in 1..Len(s) : s[i] = c /\ \A j \in 1..(i - 1) : s[j] # c
    ELSE Len(s) + 1

----------------------------------------------------------------------------
(* Constants of node.rs *)

NODE_METRIC_PORT == 9101
REST_API_SERVICE_PORT == 8080
REST_API_HAPROXY_SERVICE_PORT == 80
LOCALHOST == <<"1","2","7",".","0",".","0",".","1">>
\* the cluster CLI binary (crate constant imported at line 6)
KUBECTL_BIN == S_kubectl
\* Duration::from_secs(60) of start
StartTimeoutSecs == 60

----------------------------------------------------------------------------
(* Url (reqwest::Url), as node.rs uses it: http URLs made of a host and a   *)
(* port.  Parsing drops the scheme's default port and gives an empty path  *)
(* the value "/".                                                          *)

\* Option<u16>: None is <<>>, Some(p) is <<p>>
NoPort == <<>>

\* the port a scheme implies (80 for http)
DefaultPort(scheme) == IF scheme = S_http THEN <<80>> ELSE NoPort

InvalidUrl ==
    [valid |-> FALSE, scheme |-> S_empty, host |-> S_empty, port |-> NoPort,
     path |-> S_empty]

NoUrl == InvalidUrl

\* Url::parse / Url::from_str of "http://" host [":" port] [path]
UrlParse(s) ==
    IF ~StartsWith(s, S_http) THEN InvalidUrl
    ELSE LET rest    == SubSeq(s, Len(S_http) + 1, Len(s))
             a       == IndexOf(rest, "/")
             auth    == SubSeq(rest, 1, a - 1)
             path    == SubSeq(rest, a, Len(rest))
             c       == IndexOf(auth, ":")
             host    == SubSeq(auth, 1, c - 1)
             portStr == SubSeq(auth, c + 1, Len(auth))
             port    == ParseDecimal(portStr)
         IN  IF \/ host = <<>>
                \/ \E i \in 1..Len(portStr) : ~IsDigit(portStr[i])
                \/ port > 65535
             THEN InvalidUrl
             ELSE [valid  |-> TRUE,
                   scheme |-> S_http,
                   host   |-> host,
                   port   |-> IF portStr = <<>> \/ <<port>> = DefaultPort(S_http)
                              THEN NoPort ELSE <<port>>,
                   path   |-> IF path = <<>> THEN S_slash ELSE path]

\* Url::as_str: the serialization
UrlString(u) ==
    u.scheme \o u.host
        \o (IF u.port = NoPort THEN S_empty ELSE S_colon \o ToDecimal(u.port[1]))
        \o u.path

\* Url::port_or_known_default
UrlPortOrDefault(u) == IF u.port = NoPort THEN DefaultPort(u.scheme) ELSE u.port

----------------------------------------------------------------------------
(* The descriptor and the functions of it *)

rest_api_port(self) == self.rest_api_port

service_name(self) == self.service_name

stateful_set_name(self) == self.stateful_set_name

namespace(self) == self.namespace

\* the hosts of the two branches exchanged
rest_api_host_swapped(self) ==
    IF self.port_forward_enabled THEN self.service_name ELSE LOCALHOST

\* lines 137-141
rest_api_host(self) ==
    IF self.port_forward_enabled THEN LOCALHOST ELSE self.service_name

\* lines 136-143; an invalid URL panics ("Invalid URL.")
rest_api_endpoint(self) ==
    UrlParse(S_http \o rest_api_host(self) \o S_colon
                \o ToDecimal(rest_api_port(self)))

\* the inspection endpoint built like the REST endpoint
inspection_follows_forwarding(self) ==
    UrlParse(S_http \o rest_api_host(self) \o S_colon
                \o ToDecimal(rest_api_port(self)))

\* lines 146-153; an invalid URL panics (unwrap)
inspection_service_endpoint(self) ==
    UrlParse(S_http \o service_name(self) \o S_colon
                \o ToDecimal(rest_api_port(self)))

\* the two remote ports exchanged
remote_rest_api_port_swapped(self) ==
    IF self.haproxy_enabled THEN REST_API_SERVICE_PORT
    ELSE REST_API_HAPROXY_SERVICE_PORT

\* lines 74-78
remote_rest_api_port(self) ==
    IF self.haproxy_enabled THEN REST_API_HAPROXY_SERVICE_PORT
    ELSE REST_API_SERVICE_PORT

\* lines 79-85
port_forward_args(self) ==
    << S_portfwd,
       S_dash_n,
       namespace(self),
       S_svc \o service_name(self),
       ToDecimal(rest_api_port(self)) \o S_colon
           \o ToDecimal(remote_rest_api_port(self)) >>

\* starts_with in place of contains
pvc_name_by_prefix(self) ==
    LET sts_name == self.stateful_set_name
    IN  IF StartsWith(sts_name, S_fullnode)
        THEN S_fn_ \o sts_name \o S_dash0
        ELSE sts_name

\* lines 173-178
pvc_name(self) ==
    LET sts_name == self.stateful_set_name
    IN  IF Contains(sts_name, S_fullnode)
        THEN S_fn_ \o sts_name \o S_dash0
        ELSE sts_name

\* line 179
delete_pvc_args(self) == << S_delete, S_pvc, pvc_name(self) >>

NoCmd == [bin |-> S_empty, args |-> <<>>]

\* an outcome: the operation, how it ended, the error, and (before) the
\* desired replica count the operation found
NoRet == [op |-> "none", kind |-> "None", err |-> "none", before |-> 0]

Ok(op) == [op |-> op, kind |-> "Ok", err |-> "none", before |-> 0]

Err(op, e) == [op |-> op, kind |-> "Err", err |-> e, before |-> 0]

Panic(op, e) == [op |-> op, kind |-> "Panic", err |-> e, before |-> 0]

----------------------------------------------------------------------------
(* What the operations return, from what they saw.  An observation records *)
(* whether the child was spawned, what polling or waiting for it gave       *)
(* ("none", "running", "exited", "error"), its exit code and the number of  *)
(* liveness requests sent.                                                  *)

\* a forwarder that reports a child that exited with a failure code
port_forward_result_strict(o) ==
    IF ~o.spawned THEN Err("spawn_port_forward", "spawn")
    ELSE IF o.polled = "error" THEN Err("spawn_port_forward", "try_wait")
    ELSE IF o.polled = "exited" /\ o.status # 0
         THEN Err("spawn_port_forward", "exited")
    ELSE Ok("spawn_port_forward")

\* lines 92-118: Ok(Some(status)) and Ok(None) of try_wait both give Ok(()),
\* its Err and the spawn's Err give an error
port_forward_result(o) ==
    IF ~o.spawned THEN Err("spawn_port_forward", "spawn")
    ELSE IF o.polled = "error" THEN Err("spawn_port_forward", "try_wait")
    ELSE Ok("spawn_port_forward")

\* clear_storage without the assert of lines 186-190
clear_storage_result_unchecked(o) ==
    IF ~o.spawned THEN Panic("clear_storage", "spawn")
    ELSE Ok("clear_storage")

\* lines 181-192: expect panics when the command could not be run, the
\* assert panics with the command's stderr when it exited without success
clear_storage_result(o) ==
    IF ~o.spawned THEN Panic("clear_storage", "spawn")
    ELSE IF o.status # 0 THEN Panic("clear_storage", "stderr")
    ELSE Ok("clear_storage")

\* the two sides of the port pair exchanged
expose_metric_args_swapped(self, port) ==
    << S_portfwd,
       S_pod \o stateful_set_name(self) \o S_dash0,
       ToDecimal(NODE_METRIC_PORT) \o S_colon \o ToDecimal(port) >>

\* lines 230-236: pod_name is "{stateful_set_name}-0"
expose_metric_args(self, port) ==
    << S_portfwd,
       S_pod \o stateful_set_name(self) \o S_dash0,
       ToDecimal(port) \o S_colon \o ToDecimal(NODE_METRIC_PORT) >>

\* a health_check that asks a second time when the first request failed
health_check_retrying(answers) ==
    [ret      |-> IF answers THEN Ok("health_check")
                  ELSE Err("health_check", "Failure"),
     requests |-> IF answers THEN 1 ELSE 2]

\* lines 195-203: one get_ledger_information request; its error becomes
\* HealthCheckError::Failure
health_check(answers) ==
    [ret      |-> IF answers THEN Ok("health_check")
                  ELSE Err("health_check", "Failure"),
     requests |-> 1]

----------------------------------------------------------------------------
(* JSON (serde_json::Value) and the counters endpoint.  A value is its      *)
(* variant t, the number n it holds and whether as_f64 gives that number.  *)

JNull == [t |-> "Null", n |-> 0, finite |-> FALSE]

JString == [t |-> "String", n |-> 0, finite |-> FALSE]

JNumber(n, finite) == [t |-> "Number", n |-> n, finite |-> finite]

\* Value::index(&str): the member of an object, Null when the key is
\* missing or the value is not an object
JsonIndex(resp, key) ==
    IF resp.kind = "object" /\ key \in DOMAIN resp.map
    THEN resp.map[key]
    ELSE JNull

\* Number::as_f64: Option<f64>
as_f64(v) == IF v.finite THEN <<v.n>> ELSE <<>>

\* a counter with an error of its own for a key that is missing
counter_reporting_absence(resp, name) ==
    IF resp.kind = "unreachable"
    THEN [ret |-> Err("counter", "http"), val |-> <<>>, shown |-> JNull]
    ELSE IF resp.kind = "not_json"
    THEN [ret |-> Err("counter", "decode"), val |-> <<>>, shown |-> JNull]
    ELSE IF ~(resp.kind = "object" /\ name \in DOMAIN resp.map)
    THEN [ret |-> Err("counter", "absent"), val |-> <<>>, shown |-> JNull]
    ELSE LET v == JsonIndex(resp, name)
         IN  IF v.t = "Number"
             THEN IF as_f64(v) # <<>>
                  THEN [ret |-> Ok("counter"), val |-> as_f64(v), shown |-> v]
                  ELSE [ret |-> Err("counter", "not_f64"), val |-> <<>>,
                        shown |-> v]
             ELSE [ret |-> Err("counter", "not_number"), val |-> <<>>,
                   shown |-> v]

\* lines 206-226: the result, the value returned and the value the error
\* message shows
counter(resp, name) ==
    IF resp.kind = "unreachable"
    THEN [ret |-> Err("counter", "http"), val |-> <<>>, shown |-> JNull]
    ELSE IF resp.kind = "not_json"
    THEN [ret |-> Err("counter", "decode"), val |-> <<>>, shown |-> JNull]
    ELSE LET v == JsonIndex(resp, name)
         IN  IF v.t = "Number"
             THEN IF as_f64(v) # <<>>
                  THEN [ret |-> Ok("counter"), val |-> as_f64(v), shown |-> v]
                  ELSE [ret |-> Err("counter", "not_f64"), val |-> <<>>,
                        shown |-> v]
             ELSE [ret |-> Err("counter", "not_number"), val |-> <<>>,
                   shown |-> v]

\* line 207: format!("http://localhost:{}/counters", port)
counters_url(port) ==
    UrlParse(S_http \o S_localhost \o S_colon \o ToDecimal(port) \o S_counters)

----------------------------------------------------------------------------
(* Bounds and the descriptors drawn *)

\* latest clock reading at which a start call is entered
MaxStartOffset == 1

\* seconds by which the clock is seen to advance at a time
TickSecs == 5

\* the clock is followed up to here, past every deadline
MaxClock == MaxStartOffset + StartTimeoutSecs + TickSecs

Min(a, b) == IF a < b THEN a ELSE b

ServiceNames == {S_val0, S_fn1, S_x}

Namespaces == {S_forge, S_default}

\* 80 and 8080 are the in-cluster service ports, the others free local ports
RestApiPorts == {REST_API_HAPROXY_SERVICE_PORT, REST_API_SERVICE_PORT, 40001, 9}

\* names around the substring "fullnode": with it, with a part of it, without
StsNames ==
    { pre \o mid \o post :
        pre  \in {S_empty, S_a_},
        mid  \in {S_fullnode, S_fullnod, S_ullnode, S_full_node, S_validator},
        post \in {S_empty, S_e, S_dash0} }

Descriptor(sts, svc, ns, port, haproxy, pf) ==
    [name                 |-> sts \o S_dash0,
     stateful_set_name    |-> sts,
     peer_id              |-> 1,
     index                |-> 0,
     service_name         |-> svc,
     rest_api_port        |-> port,
     version              |-> 0,
     namespace            |-> ns,
     haproxy_enabled      |-> haproxy,
     port_forward_enabled |-> pf]

Descriptors ==
    { Descriptor(sts, svc, ns, port, haproxy, pf) :
        sts \in StsNames, svc \in ServiceNames, ns \in Namespaces,
        port \in RestApiPorts, haproxy \in BOOLEAN, pf \in BOOLEAN }

\* the descriptors of the lifecycle specification: a validator and a fullnode
LifecycleDescriptors ==
    { Descriptor(S_validator, S_val0, S_forge, 40001, TRUE, TRUE),
      Descriptor(S_a_ \o S_fullnode, S_fn1, S_default,
                 REST_API_SERVICE_PORT, FALSE, FALSE) }

NoCall ==
    [scaled |-> FALSE, probed |-> FALSE, probeOk |-> FALSE,
     everHealthy |-> FALSE, pre |-> [replicas |-> 0, healthy |-> FALSE]]

\* forwarder children the operations called one after the other leave behind
MaxChildren == 1

\* exit codes of a kubectl child that has exited: success and failure
ExitStatuses == {0, 1}

\* local ports the free-port allocator hands out
FreePorts == {40002, 40003}

\* an operation that spawned no child and sent no request
NoObs == [spawned |-> FALSE, polled |-> "none", status |-> 0, requests |-> 0]

NoVal == <<>>

\* callers of spawn_port_forward running at the same time
Callers == {1, 2}

\* names of counters asked for
CounterNames == {S_x, S_e}

\* local port the counters are read on: one that expose_metric returned
CounterPorts == {40002}

\* values the counters object holds: a string, null, a number, and a number
\* as_f64 gives nothing for
JsonValues == {JNull, JString, JNumber(3, TRUE), JNumber(9, FALSE)}

NoMap == <<>>

\* what the counters endpoint answers: nothing, a body that is not JSON,
\* a JSON array, or an object with one member, or none
Responses ==
    {[kind |-> k, map |-> NoMap] :
        k \in {"unreachable", "not_json", "array", "object"}}
        \cup {[kind |-> "object", map |-> [k \in {key} |-> v]] :
                key \in CounterNames, v \in JsonValues}

NoFixture ==
    [resp |-> [kind |-> "none", map |-> NoMap], name |-> S_empty,
     shown |-> JNull]

NoFwd == [c \in Callers |-> [pc |-> "idle", child |-> 0, kind |-> "none"]]

----------------------------------------------------------------------------
(* The stateful set, as the scaling helper and the cluster change it *)

\* start asking for one replica too many
StartReplicasOffByOne == 1 + 1

\* replica count start asks for (line 160)
StartReplicas == 1

\* stop asking for the replica count of start
StopReplicasAsStart == 0 + 1

\* replica count stop asks for (line 169)
StopReplicas == 0

\* scale_stateful_set_replicas(name, n): ok sets the desired count, an
\* error leaves it
ScaleStatefulSetReplicas(op, n, ok) ==
    /\ replicas' = IF ok THEN n ELSE replicas
    /\ scaleReqs' = scaleReqs \cup {[op |-> op, n |-> n]}

\* a deadline the clock never reaches
StartDeadlineNever(t) == t + StartTimeoutSecs + MaxClock

\* Instant::now() + Duration::from_secs(60) (line 161)
StartDeadline(t) == t + StartTimeoutSecs

InStart == pc \in {"wait_loop", "probing", "sleeping"}

\* the operation that found the replica count at b returns r
ReturnsFrom(b, r) ==
    /\ pc' = "idle"
    /\ ret' = [r EXCEPT !.before = b]

Returns(r) == ReturnsFrom(replicas, r)

InitCommon ==
    /\ replicas \in {0, 1}
    /\ healthy \in {FALSE, replicas = 1}
    /\ pc = "idle"
    /\ now = 0
    /\ deadline = 0
    /\ ret = NoRet
    /\ url = NoUrl
    /\ cmd = NoCmd
    /\ scaleReqs = {}
    /\ call = NoCall
    /\ children = <<>>
    /\ obs = NoObs
    /\ val = NoVal
    /\ fixture = NoFixture
    /\ fwd = NoFwd

Init == desc \in LifecycleDescriptors /\ InitCommon

InitDesc == desc \in Descriptors /\ InitCommon /\ replicas = 1 /\ healthy

----------------------------------------------------------------------------
(* start (lines 159-165) *)

\* line 160 without its "?": the wait begins whatever the scaling returned
StartScaleIgnoresError ==
    /\ pc = "idle"
    /\ \E t \in 0..MaxStartOffset, ok \in BOOLEAN :
        /\ now' = t
        /\ ScaleStatefulSetReplicas("start", StartReplicas, ok)
        /\ call' = [scaled |-> ok, probed |-> FALSE, probeOk |-> FALSE,
                    everHealthy |-> ok /\ healthy,
                    pre |-> [replicas |-> replicas, healthy |-> healthy]]
        /\ deadline' = StartDeadline(t)
        /\ pc' = "wait_loop"
        /\ UNCHANGED ret
    /\ url' = NoUrl
    /\ cmd' = NoCmd
    /\ obs' = NoObs
    /\ val' = NoVal
    /\ fixture' = NoFixture
    /\ UNCHANGED <<desc, healthy, children, fwd>>

\* line 160, and line 161's deadline when the scaling succeeded; the clock
\* reads t when the scaling helper has returned
StartScale ==
    /\ pc = "idle"
    /\ \E t \in 0..MaxStartOffset, ok \in BOOLEAN :
        /\ now' = t
        /\ ScaleStatefulSetReplicas("start", StartReplicas, ok)
        /\ call' = [scaled |-> ok, probed |-> FALSE, probeOk |-> FALSE,
                    everHealthy |-> ok /\ healthy,
                    pre |-> [replicas |-> replicas, healthy |-> healthy]]
        /\ IF ok
           THEN /\ deadline' = StartDeadline(t)
                /\ pc' = "wait_loop"
                /\ UNCHANGED ret
           ELSE /\ deadline' = 0
                /\ Returns(Err("start", "scale"))
    /\ url' = NoUrl
    /\ cmd' = NoCmd
    /\ obs' = NoObs
    /\ val' = NoVal
    /\ fixture' = NoFixture
    /\ UNCHANGED <<desc, healthy, children, fwd>>

\* a start that undoes its scaling request when the wait fails
StartFailsRollsBack(e) ==
    /\ ReturnsFrom(call.pre.replicas, Err("start", e))
    /\ replicas' = StopReplicas
    /\ UNCHANGED scaleReqs

\* line 162's "?": the wait's error is returned as it is, and the scaling
\* request of line 160 is not undone
StartFails(e) ==
    /\ ReturnsFrom(call.pre.replicas, Err("start", e))
    /\ UNCHANGED <<replicas, scaleReqs>>

\* wait_until_healthy(deadline): the loop's test of the clock; past the
\* deadline the wait, and with it start (line 162), returns the timeout error
WaitUntilHealthy ==
    /\ pc = "wait_loop"
    /\ IF now < deadline
       THEN /\ pc' = "probing"
            /\ UNCHANGED <<ret, replicas, scaleReqs>>
       ELSE StartFails("timeout")
    /\ UNCHANGED <<desc, healthy, now, deadline, url, cmd, call>>
    /\ UNCHANGED procVars

\* health_check (lines 195-203): one liveness request, which the pod answers
\* when it is healthy;
\* success ends the wait and start returns Ok (line 164), a Failure is left
\* to the wait loop
HealthCheck ==
    /\ pc = "probing"
    /\ call' = [call EXCEPT !.probed = TRUE, !.probeOk = healthy]
    /\ IF healthy
       THEN ReturnsFrom(call.pre.replicas, Ok("start"))
       ELSE /\ pc' = "sleeping"
            /\ UNCHANGED ret
    /\ UNCHANGED <<desc, replicas, healthy, now, deadline, url, cmd, scaleReqs>>
    /\ UNCHANGED procVars

\* the wait loop's pause between two probes
WaitSleep ==
    /\ pc = "sleeping"
    /\ now' = Min(now + TickSecs, MaxClock)
    /\ pc' = "wait_loop"
    /\ UNCHANGED <<desc, replicas, healthy, deadline, ret, url, cmd,
                   scaleReqs, call>>
    /\ UNCHANGED procVars

\* time passing while start is in progress (a request that takes long)
Tick ==
    /\ InStart
    /\ now < MaxClock
    /\ now' = Min(now + TickSecs, MaxClock)
    /\ UNCHANGED <<desc, replicas, healthy, pc, deadline, ret, url, cmd,
                   scaleReqs, call>>
    /\ UNCHANGED procVars

----------------------------------------------------------------------------
(* stop (lines 167-170) *)

\* a stop that also ends the forwarders of the node
StopKillsForwarders ==
    /\ pc = "idle"
    /\ \E ok \in BOOLEAN :
        /\ ScaleStatefulSetReplicas("stop", StopReplicas, ok)
        /\ Returns(IF ok THEN Ok("stop") ELSE Err("stop", "scale"))
    /\ children' = [i \in 1..Len(children) |->
                        [children[i] EXCEPT !.state = "exited"]]
    /\ url' = NoUrl
    /\ cmd' = NoCmd
    /\ obs' = NoObs
    /\ val' = NoVal
    /\ fixture' = NoFixture
    /\ UNCHANGED <<desc, healthy, now, deadline, call, fwd>>

Stop ==
    /\ pc = "idle"
    /\ \E ok \in BOOLEAN :
        /\ ScaleStatefulSetReplicas("stop", StopReplicas, ok)
        /\ Returns(IF ok THEN Ok("stop") ELSE Err("stop", "scale"))
    /\ url' = NoUrl
    /\ cmd' = NoCmd
    /\ obs' = NoObs
    /\ val' = NoVal
    /\ fixture' = NoFixture
    /\ UNCHANGED <<desc, healthy, now, deadline, call>>
    /\ UNCHANGED <<children, fwd>>

----------------------------------------------------------------------------
(* clear_storage (lines 172-193) *)

\* lines 179-192: the delete command is run to its end (output()); a delete
\* that exited with success (status 0) has removed the claim
DeletePvc ==
    /\ cmd' = [bin |-> S_kubectl, args |-> delete_pvc_args(desc)]
    /\ \E spawned \in BOOLEAN, status \in ExitStatuses :
        LET o == [spawned  |-> spawned,
                  polled   |-> IF spawned THEN "exited" ELSE "none",
                  status   |-> IF spawned THEN status ELSE 0,
                  requests |-> 0]
        IN  /\ obs' = o
            /\ Returns(clear_storage_result(o))
    /\ url' = NoUrl
    /\ val' = NoVal
    /\ fixture' = NoFixture
    /\ UNCHANGED <<desc, replicas, healthy, now, deadline, scaleReqs, call>>
    /\ UNCHANGED <<children, fwd>>

\* a clear_storage that refuses a node whose replica count is not 0
ClearStorageOnlyStopped ==
    /\ pc = "idle"
    /\ IF replicas = 0
       THEN DeletePvc
       ELSE /\ Returns(Err("clear_storage", "running"))
            /\ cmd' = NoCmd
            /\ url' = NoUrl
            /\ obs' = NoObs
            /\ val' = NoVal
            /\ fixture' = NoFixture
            /\ UNCHANGED <<desc, replicas, healthy, now, deadline, scaleReqs,
                           call, children, fwd>>

\* the replica count is not looked at
ClearStorage ==
    /\ pc = "idle"
    /\ DeletePvc

----------------------------------------------------------------------------
(* The pod, as the cluster runs it *)

\* a pod of a stateful set scaled to 1 comes up
PodBecomesHealthy ==
    /\ replicas = 1
    /\ ~healthy
    /\ healthy' = TRUE
    /\ call' = IF InStart THEN [call EXCEPT !.everHealthy = TRUE] ELSE call
    /\ UNCHANGED <<desc, replicas, pc, now, deadline, ret, url, cmd,
                   scaleReqs>>
    /\ UNCHANGED procVars

\* the pod stops answering: it crashed, or was scaled down
PodBecomesUnhealthy ==
    /\ healthy
    /\ healthy' = FALSE
    /\ UNCHANGED <<desc, replicas, pc, now, deadline, ret, url, cmd,
                   scaleReqs, call>>
    /\ UNCHANGED procVars

----------------------------------------------------------------------------
(* The accessors and the REST forwarder *)

RestApiEndpoint ==
    /\ pc = "idle"
    /\ LET u == rest_api_endpoint(desc)
       IN  /\ url' = u
           /\ Returns(IF u.valid THEN Ok("rest_api_endpoint")
                      ELSE Panic("rest_api_endpoint", "invalid_url"))
    /\ cmd' = NoCmd
    /\ obs' = NoObs
    /\ val' = NoVal
    /\ fixture' = NoFixture
    /\ UNCHANGED <<desc, replicas, healthy, now, deadline, scaleReqs, call>>
    /\ UNCHANGED <<children, fwd>>

InspectionServiceEndpoint ==
    /\ pc = "idle"
    /\ LET u == inspection_service_endpoint(desc)
       IN  /\ url' = u
           /\ Returns(IF u.valid THEN Ok("inspection_service_endpoint")
                      ELSE Panic("inspection_service_endpoint", "invalid_url"))
    /\ cmd' = NoCmd
    /\ obs' = NoObs
    /\ val' = NoVal
    /\ fixture' = NoFixture
    /\ UNCHANGED <<desc, replicas, healthy, now, deadline, scaleReqs, call>>
    /\ UNCHANGED <<children, fwd>>

----------------------------------------------------------------------------
(* The forwarder children.  A child is "starting" until it listens on its   *)
(* local port, "serving" while it does, and "exited" once it has ended.     *)

Child(kind, state) == [kind |-> kind, state |-> state]

\* no child listens on the local port of a child of this kind: the REST
\* forwarders share rest_api_port, a metric forwarder has a port of its own
PortFree(kind) ==
    kind = "rest" =>
        \A i \in 1..Len(children) :
            ~(children[i].kind = "rest" /\ children[i].state = "serving")

\* a child that listens on its port, or ends because the port is taken
ChildBinds ==
    /\ \E i \in 1..Len(children) :
        /\ children[i].state = "starting"
        /\ children' = [children EXCEPT ![i].state =
                            IF PortFree(children[i].kind) THEN "serving"
                            ELSE "exited"]
    /\ UNCHANGED <<desc, replicas, healthy, pc, now, deadline, ret, url, cmd,
                   scaleReqs, call, obs, val, fixture, fwd>>

\* a child that ends on its own: the cluster or the pod went away
ChildExits ==
    /\ \E i \in 1..Len(children) :
        /\ children[i].state \in {"starting", "serving"}
        /\ children' = [children EXCEPT ![i].state = "exited"]
    /\ UNCHANGED <<desc, replicas, healthy, pc, now, deadline, ret, url, cmd,
                   scaleReqs, call, obs, val, fixture, fwd>>

\* where a child just spawned may be when its parent looks again
SettledStates(kind) ==
    {"starting", "exited"} \cup (IF PortFree(kind) THEN {"serving"} ELSE {})

\* spawn_port_forward (lines 73-119): the command is launched; the spawn
\* fails, or the child is polled after the settle delay: try_wait gives
\* the exit status of a child that has exited (polled is "exited": it has
\* reaped the child) or finds it running; the Child handle is then dropped,
\* which leaves the process as it is
SpawnPortForward ==
    /\ pc = "idle"
    /\ Len(children) < MaxChildren
    /\ cmd' = [bin |-> KUBECTL_BIN, args |-> port_forward_args(desc)]
    /\ \E spawned \in BOOLEAN, st \in SettledStates("rest"),
          polledOk \in BOOLEAN, status \in ExitStatuses :
        LET polled == IF ~spawned THEN "none"
                      ELSE IF ~polledOk THEN "error"
                      ELSE IF st = "exited" THEN "exited"
                      ELSE "running"
            o == [spawned  |-> spawned,
                  polled   |-> polled,
                  status   |-> IF polled = "exited" THEN status ELSE 0,
                  requests |-> 0]
        IN  /\ obs' = o
            /\ children' =
                    IF spawned
                    THEN Append(children, Child("rest", st))
                    ELSE children
            /\ Returns(port_forward_result(o))
    /\ url' = NoUrl
    /\ val' = NoVal
    /\ fixture' = NoFixture
    /\ UNCHANGED <<desc, replicas, healthy, now, deadline, scaleReqs, call>>
    /\ UNCHANGED fwd

\* get_free_port(): a local port nothing listens on
get_free_port == FreePorts \ {rest_api_port(desc)}

\* an expose_metric that keeps the port it forwards in the descriptor
ExposeMetricKeepsPort ==
    /\ pc = "idle"
    /\ Len(children) < MaxChildren
    /\ \E port \in get_free_port, spawned \in BOOLEAN :
        /\ cmd' = [bin |-> S_kubectl, args |-> expose_metric_args(desc, port)]
        /\ obs' = [NoObs EXCEPT !.spawned = spawned]
        /\ IF spawned
           THEN \E st \in SettledStates("metric") :
                    /\ children' = Append(children, Child("metric", st))
                    /\ val' = <<port>>
                    /\ desc' = [desc EXCEPT !.rest_api_port = port]
                    /\ Returns(Ok("expose_metric"))
           ELSE /\ children' = children
                /\ val' = NoVal
                /\ desc' = desc
                /\ Returns(Err("expose_metric", "spawn"))
    /\ url' = NoUrl
    /\ fixture' = NoFixture
    /\ UNCHANGED <<replicas, healthy, now, deadline, scaleReqs, call>>
    /\ UNCHANGED fwd

\* expose_metric (lines 229-246): a free port, the forwarder spawned for it
\* (an error when it could not be), five seconds of sleep, and the port;
\* the child is not looked at again
ExposeMetric ==
    /\ pc = "idle"
    /\ Len(children) < MaxChildren
    /\ \E port \in get_free_port, spawned \in BOOLEAN :
        /\ cmd' = [bin |-> S_kubectl, args |-> expose_metric_args(desc, port)]
        /\ obs' = [NoObs EXCEPT !.spawned = spawned]
        /\ IF spawned
           THEN \E st \in SettledStates("metric") :
                    /\ children' = Append(children, Child("metric", st))
                    /\ val' = <<port>>
                    /\ Returns(Ok("expose_metric"))
           ELSE /\ children' = children
                /\ val' = NoVal
                /\ Returns(Err("expose_metric", "spawn"))
    /\ url' = NoUrl
    /\ fixture' = NoFixture
    /\ UNCHANGED <<desc, replicas, healthy, now, deadline, scaleReqs, call>>
    /\ UNCHANGED fwd

----------------------------------------------------------------------------
(* The probes *)

\* health_check (lines 195-203) called on its own: the request goes to the
\* REST endpoint, which the pod answers when it is healthy
HealthCheckOp ==
    /\ pc = "idle"
    /\ LET u == rest_api_endpoint(desc)
           r == health_check(healthy)
       IN  /\ url' = u
           /\ IF u.valid
              THEN /\ obs' = [NoObs EXCEPT !.requests = r.requests]
                   /\ Returns(r.ret)
              ELSE /\ obs' = NoObs
                   /\ Returns(Panic("health_check", "invalid_url"))
    /\ cmd' = NoCmd
    /\ val' = NoVal
    /\ fixture' = NoFixture
    /\ UNCHANGED <<desc, replicas, healthy, now, deadline, scaleReqs, call>>
    /\ UNCHANGED <<children, fwd>>

\* counter (lines 206-226): one GET of the counters object on the local port
Counter ==
    /\ pc = "idle"
    /\ \E port \in CounterPorts :
        LET u == counters_url(port)
        IN  \E resp \in Responses, name \in CounterNames :
                LET r == counter(resp, name)
                IN  /\ url' = u
                    /\ obs' = [NoObs EXCEPT !.requests = 1]
                    /\ fixture' = [resp |-> resp, name |-> name,
                                   shown |-> r.shown]
                    /\ val' = r.val
                    /\ Returns(r.ret)
    /\ cmd' = NoCmd
    /\ UNCHANGED <<desc, replicas, healthy, now, deadline, scaleReqs, call>>
    /\ UNCHANGED <<children, fwd>>

----------------------------------------------------------------------------
(* start as its caller sees it, the whole call at once (lines 159-165) *)

\* the scaling request; its error is returned, else the wait ends with a
\* probe the pod answered (Ok) or with the deadline passed (the timeout
\* error), the pod being up or not when the call returns
StartCall ==
    /\ pc = "idle"
    /\ \E ok \in BOOLEAN, answered \in BOOLEAN, up \in BOOLEAN :
        /\ ScaleStatefulSetReplicas("start", StartReplicas, ok)
        /\ IF ~ok
           THEN /\ healthy' = healthy
                /\ Returns(Err("start", "scale"))
           ELSE IF answered
           THEN /\ healthy' = TRUE
                /\ Returns(Ok("start"))
           ELSE /\ healthy' = up
                /\ Returns(Err("start", "timeout"))
    /\ url' = NoUrl
    /\ cmd' = NoCmd
    /\ obs' = NoObs
    /\ val' = NoVal
    /\ fixture' = NoFixture
    /\ UNCHANGED <<desc, now, deadline, call, children, fwd>>

----------------------------------------------------------------------------
(* spawn_port_forward called by several callers at once (lines 87-118):     *)
(* each caller spawns its child, sleeps the settle delay while the          *)
(* children and the other callers run, then polls its child.                *)

\* lines 87-91 and 113-117: the spawn, and the return when it failed
FwdSpawn(c) ==
    /\ fwd[c].pc = "idle"
    /\ cmd' = [bin |-> KUBECTL_BIN, args |-> port_forward_args(desc)]
    /\ \E spawned \in BOOLEAN :
        IF spawned
        THEN /\ children' = Append(children,
                                   Child("rest", "starting"))
             /\ fwd' = [fwd EXCEPT ![c] = [pc |-> "settling",
                                           child |-> Len(children) + 1,
                                           kind |-> "none"]]
        ELSE /\ children' = children
             /\ fwd' = [fwd EXCEPT ![c] =
                            [pc |-> "returned", child |-> 0,
                             kind |-> port_forward_result(NoObs).kind]]
    /\ UNCHANGED <<desc, replicas, healthy, pc, now, deadline, ret, url,
                   scaleReqs, call, obs, val, fixture>>

\* lines 95-111: after the settle delay, try_wait on the caller's child
FwdPoll(c) ==
    /\ fwd[c].pc = "settling"
    /\ \E polledOk \in BOOLEAN, status \in ExitStatuses :
        LET i == fwd[c].child
            polled == IF ~polledOk THEN "error"
                      ELSE IF children[i].state = "exited" THEN "exited"
                      ELSE "running"
            o == [spawned  |-> TRUE,
                  polled   |-> polled,
                  status   |-> IF polled = "exited" THEN status ELSE 0,
                  requests |-> 0]
        IN  /\ children' = children
            /\ fwd' = [fwd EXCEPT ![c].pc = "returned",
                                  ![c].kind = port_forward_result(o).kind]
    /\ UNCHANGED <<desc, replicas, healthy, pc, now, deadline, ret, url, cmd,
                   scaleReqs, call, obs, val, fixture>>

----------------------------------------------------------------------------
(* Specifications *)

Next ==
    \/ StartScale
    \/ WaitUntilHealthy
    \/ HealthCheck
    \/ WaitSleep
    \/ Tick
    \/ Stop
    \/ ClearStorage
    \/ PodBecomesHealthy
    \/ PodBecomesUnhealthy

Spec == Init /\ [][Next]_vars

\* the executor keeps polling the start future: each of its steps is taken
FairSpec ==
    /\ Spec
    /\ WF_vars(WaitUntilHealthy)
    /\ WF_vars(HealthCheck)
    /\ WF_vars(WaitSleep)

\* the descriptor has had no operation applied to it yet
FirstCall == ret = NoRet

\* each operation applied to each descriptor
NextDesc ==
    \/ FirstCall /\ RestApiEndpoint
    \/ FirstCall /\ InspectionServiceEndpoint
    \/ FirstCall /\ SpawnPortForward
    \/ FirstCall /\ ExposeMetric
    \/ FirstCall /\ ClearStorage

SpecDesc == InitDesc /\ [][NextDesc]_vars

\* a node whose REST API is reached through a forwarder
InitFwd ==
    /\ desc = Descriptor(S_validator, S_val0, S_forge, 40001, TRUE, TRUE)
    /\ InitCommon

\* every operation of the node, called one after the other, with the pod
\* and the forwarder children running meanwhile
NextOps ==
    \/ StartCall
    \/ Stop
    \/ ClearStorage
    \/ HealthCheckOp
    \/ Counter
    \/ SpawnPortForward
    \/ ExposeMetric
    \/ RestApiEndpoint
    \/ InspectionServiceEndpoint
    \/ ChildBinds
    \/ ChildExits
    \/ PodBecomesHealthy
    \/ PodBecomesUnhealthy

SpecOps == InitFwd /\ [][NextOps]_vars

NextFwd ==
    \/ \E c \in Callers : FwdSpawn(c)
    \/ \E c \in Callers : FwdPoll(c)
    \/ ChildBinds
    \/ ChildExits

SpecFwd == InitFwd /\ [][NextFwd]_vars

\* the two probes, with the pod coming up and going down
NextProbes ==
    \/ HealthCheckOp
    \/ Counter
    \/ PodBecomesHealthy
    \/ PodBecomesUnhealthy

SpecProbes == Init /\ [][NextProbes]_vars

----------------------------------------------------------------------------
(* Lifecycle properties (Spec, FairSpec) *)

StartReturned == pc = "idle" /\ ret.op = "start"

\* C1: after any sequence of start, stop and clear_storage calls, succeeding
\* or failing, the desired replica count is 0 or 1; every request start made
\* was for 1, every request stop made was for 0, and nothing else made one.
C1_ReplicasZeroOrOne ==
    /\ replicas \in {0, 1}
    /\ \A r \in scaleReqs :
        \/ r.op = "start" /\ r.n = 1
        \/ r.op = "stop" /\ r.n = 0

C1_Witness ==
    /\ pc = "idle"
    /\ ret.op = "clear_storage"
    /\ scaleReqs = {[op |-> "start", n |-> 1], [op |-> "stop", n |-> 0]}
    /\ replicas = 1

\* C2: a stop whose scaling succeeded leaves the desired replica count at 0,
\* after a start as after anything else; on a node whose count is already 0
\* it returns Ok and changes nothing (stop is idempotent).
C2_StopIdempotent ==
    /\ [](pc = "idle" /\ ret.op = "stop" /\ ret.kind = "Ok" => replicas = 0)
    /\ [][Stop /\ ret'.kind = "Ok" =>
            /\ replicas' = 0
            /\ ret'.op = "stop"
            /\ replicas = 0 =>
                /\ replicas' = replicas
                /\ healthy' = healthy
                /\ desc' = desc]_vars

C2_Witness ==
    /\ pc = "idle"
    /\ ret.op = "stop" /\ ret.kind = "Ok" /\ ret.before = 0
    /\ [op |-> "start", n |-> 1] \in scaleReqs
    /\ call.scaled
    /\ replicas = 0

\* C3: start asks for replica count 1 before it issues any health probe; it
\* returns Ok only after a probe issued after that request succeeded; when
\* the scaling request fails it returns that error with no probe issued.
C3_ScaleBeforeProbe ==
    /\ pc \in {"wait_loop", "probing", "sleeping"} =>
            call.scaled /\ replicas = 1 /\ [op |-> "start", n |-> 1] \in scaleReqs
    /\ call.probed => call.scaled /\ [op |-> "start", n |-> 1] \in scaleReqs
    /\ StartReturned /\ ret.kind = "Ok" =>
            call.scaled /\ call.probed /\ call.probeOk
    /\ StartReturned /\ ret.err = "scale" => ~call.scaled /\ ~call.probed
    /\ StartReturned /\ ~call.scaled => ret.kind = "Err" /\ ret.err = "scale"

C3_Witness ==
    /\ StartReturned
    /\ ret.kind = "Ok"
    /\ call.probed
    /\ ~call.pre.healthy
    /\ now > 0

\* C4: every start call returns; when the node was never healthy during the
\* wait, start returns the timeout error, with the clock at or past the
\* deadline, and never Ok.
C4_StartReturns ==
    /\ (pc # "idle") ~> (pc = "idle")
    /\ [](StartReturned /\ call.scaled /\ ~call.everHealthy =>
            /\ ret.kind = "Err"
            /\ ret.err = "timeout"
            /\ now >= deadline
            /\ deadline >= StartTimeoutSecs)

C4_Witness ==
    /\ StartReturned
    /\ ret.err = "timeout"
    /\ call.probed
    /\ ~call.everHealthy
    /\ now >= 60

\* C5: start on a node that is running (replica count 1, healthy) leaves the
\* replica count at 1, and the probe that finds the node healthy makes start
\* return Ok with the node as it was before the call.
C5_StartIdempotent ==
    /\ [][StartScale /\ replicas = 1 =>
            replicas' = 1 /\ healthy' = healthy /\ desc' = desc]_vars
    /\ [][HealthCheck /\ call.pre.replicas = 1 /\ call.pre.healthy /\ healthy =>
            /\ pc' = "idle"
            /\ ret' = [op |-> "start", kind |-> "Ok", err |-> "none", before |-> 1]
            /\ replicas' = call.pre.replicas
            /\ healthy' = call.pre.healthy
            /\ desc' = desc]_vars

C5_Witness ==
    /\ StartReturned
    /\ ret.kind = "Ok" /\ ret.before = 1
    /\ call.pre.healthy
    /\ replicas = 1
    /\ healthy

----------------------------------------------------------------------------
(* Resolver and command-line properties (SpecDesc) *)

\* the text http://H:P/ for host text h and port number p
HttpUrlText(h, p) == S_http \o h \o S_colon \o ToDecimal(p) \o S_slash

\* u is the URL http://H:P/: scheme http, host h, port p (the scheme's own
\* port when the URL carries none), path "/"; its text is http://H:P/, with
\* ":P" left out when p is the port http implies
IsHttpUrl(u, h, p) ==
    /\ u.valid
    /\ u.scheme = <<"h","t","t","p",":","/","/">>
    /\ u.host = h
    /\ UrlPortOrDefault(u) = <<p>>
    /\ u.path = <<"/">>
    /\ u = UrlParse(HttpUrlText(h, p))
    /\ p # 80 => UrlString(u) = HttpUrlText(h, p)
    /\ p = 80 => UrlString(u) = S_http \o h \o S_slash

\* C6: for every descriptor, rest_api_endpoint returns the URL http://H:P/
\* with P = rest_api_port and H exactly 127.0.0.1 when port_forward_enabled,
\* exactly service_name when not.
C6_RestApiEndpoint ==
    ret.op = "rest_api_endpoint" =>
        /\ ret.kind = "Ok"
        /\ desc.port_forward_enabled =>
              IsHttpUrl(url, <<"1","2","7",".","0",".","0",".","1">>,
                        desc.rest_api_port)
        /\ ~desc.port_forward_enabled =>
              IsHttpUrl(url, desc.service_name, desc.rest_api_port)

C6_Witness ==
    /\ ret.op = "rest_api_endpoint"
    /\ desc.port_forward_enabled
    /\ desc.rest_api_port = 40001
    /\ UrlString(url) =
         <<"h","t","t","p",":","/","/","1","2","7",".","0",".","0",".","1",
           ":","4","0","0","0","1","/">>

\* C7: for every descriptor, inspection_service_endpoint returns the URL
\* http://{service_name}:{rest_api_port}/, whatever port_forward_enabled is.
C7_InspectionEndpoint ==
    ret.op = "inspection_service_endpoint" =>
        /\ ret.kind = "Ok"
        /\ IsHttpUrl(url, desc.service_name, desc.rest_api_port)

C7_Witness ==
    /\ ret.op = "inspection_service_endpoint"
    /\ desc.port_forward_enabled
    /\ desc.service_name = <<"v","a","l","0">>
    /\ desc.rest_api_port = 40001
    /\ UrlString(url) =
         <<"h","t","t","p",":","/","/","v","a","l","0",
           ":","4","0","0","0","1","/">>

\* C8: with port_forward_enabled, every endpoint URL of the node
\* (rest_api_endpoint, inspection_service_endpoint) pairs rest_api_port with
\* host 127.0.0.1; rest_api_port is paired with service_name only when
\* port_forward_enabled is false.
C8_LocalPortOnlyWithLocalhost ==
    ret.op \in {"rest_api_endpoint", "inspection_service_endpoint"} =>
        /\ UrlPortOrDefault(url) = <<desc.rest_api_port>>
        /\ desc.port_forward_enabled =>
              url.host = <<"1","2","7",".","0",".","0",".","1">>
        /\ url.host = desc.service_name => ~desc.port_forward_enabled

\* the last argument of the REST forwarder: local ":" remote
ForwardedPorts(arg) ==
    LET i == IndexOf(arg, ":")
    IN  [local  |-> SubSeq(arg, 1, i - 1),
         remote |-> SubSeq(arg, i + 1, Len(arg))]

\* C9: for every descriptor, spawn_port_forward launches the cluster CLI with
\* the arguments port-forward -n {namespace} svc/{service_name}
\* {rest_api_port}:{remote}, remote being 80 iff haproxy_enabled, else 8080.
C9_PortForwardArgv ==
    ret.op = "spawn_port_forward" =>
        /\ cmd.bin = <<"k","u","b","e","c","t","l">>
        /\ Len(cmd.args) = 5
        /\ cmd.args[1] = <<"p","o","r","t","-","f","o","r","w","a","r","d">>
        /\ cmd.args[2] = <<"-","n">>
        /\ cmd.args[3] = desc.namespace
        /\ cmd.args[4] = <<"s","v","c","/">> \o desc.service_name
        /\ LET ports == ForwardedPorts(cmd.args[5])
           IN  /\ ports.local # <<>>
               /\ \A i \in 1..Len(ports.local) : IsDigit(ports.local[i])
               /\ Len(ports.local) > 1 => ports.local[1] # "0"
               /\ ParseDecimal(ports.local) = desc.rest_api_port
               /\ ports.remote = <<"8","0">> <=> desc.haproxy_enabled
               /\ ports.remote = <<"8","0","8","0">> <=> ~desc.haproxy_enabled

C9_Witness ==
    /\ ret.op = "spawn_port_forward"
    /\ ret.kind = "Ok"
    /\ desc.haproxy_enabled
    /\ desc.rest_api_port = 40001
    /\ cmd.args[5] = <<"4","0","0","0","1",":","8","0">>

\* s holds f,u,l,l,n,o,d,e in a row from some position on
HasFullnode(s) ==
    \E i \in 0..Len(s) :
        /\ i + 8 <= Len(s)
        /\ s[i + 1] = "f" /\ s[i + 2] = "u" /\ s[i + 3] = "l" /\ s[i + 4] = "l"
        /\ s[i + 5] = "n" /\ s[i + 6] = "o" /\ s[i + 7] = "d" /\ s[i + 8] = "e"

\* C10: for every stateful-set name s, clear_storage runs delete pvc {pvc},
\* pvc being fn-{s}-0 iff s contains fullnode, and s itself otherwise.
C10_PvcName ==
    ret.op = "clear_storage" =>
        LET s == desc.stateful_set_name
        IN  /\ cmd.bin = <<"k","u","b","e","c","t","l">>
            /\ Len(cmd.args) = 3
            /\ cmd.args[1] = <<"d","e","l","e","t","e">>
            /\ cmd.args[2] = <<"p","v","c">>
            /\ cmd.args[3] = <<"f","n","-">> \o s \o <<"-","0">> <=> HasFullnode(s)
            /\ ~HasFullnode(s) => cmd.args[3] = s

C10_Witness ==
    /\ ret.op = "clear_storage"
    /\ desc.stateful_set_name = <<"a","-","f","u","l","l","n","o","d","e","-","0">>
    /\ cmd.args[3] =
         <<"f","n","-","a","-","f","u","l","l","n","o","d","e","-","0","-","0">>

----------------------------------------------------------------------------
(* The REST forwarder's result (SpecDesc) *)

\* C11: spawn_port_forward returns an error exactly when the child could not
\* be spawned or polling it after the settle delay failed; a child found
\* running and a child found exited, with exit code zero or not, both give
\* success.
C11_PortForwardResult ==
    ret.op = "spawn_port_forward" =>
        /\ ret.kind \in {"Ok", "Err"}
        /\ ret.kind = "Err" <=> (~obs.spawned \/ obs.polled = "error")
        /\ ~obs.spawned => ret.err = "spawn"
        /\ obs.spawned /\ obs.polled = "error" => ret.err = "try_wait"
        /\ obs.spawned /\ obs.polled \in {"running", "exited"} =>
                ret.kind = "Ok" /\ obs.status \in ExitStatuses

C11_Witness ==
    /\ ret.op = "spawn_port_forward"
    /\ ret.kind = "Ok"
    /\ obs.polled = "exited"
    /\ obs.status # 0
    /\ Len(children) = 1
    /\ children[1].state = "exited"

----------------------------------------------------------------------------
(* clear_storage (Spec) *)

C14_ClearStorageFrame ==
    /\ [](pc = "idle" /\ ret.op = "clear_storage" =>
            /\ replicas = ret.before
            /\ cmd.bin = <<"k","u","b","e","c","t","l">>
            /\ cmd.args = << <<"d","e","l","e","t","e">>, <<"p","v","c">>,
                             pvc_name(desc) >>)
    /\ [][ClearStorage =>
            /\ replicas' = replicas
            /\ healthy' = healthy
            /\ scaleReqs' = scaleReqs
            /\ desc' = desc
            /\ ret'.op = "clear_storage"
            /\ ret'.before = replicas]_vars

C14_Witness ==
    /\ pc = "idle"
    /\ ret.op = "clear_storage"
    /\ ret.kind = "Ok"
    /\ ret.before = 1
    /\ replicas = 1
    /\ healthy
    /\ obs.status = 0
    /\ cmd.args[1] = <<"d","e","l","e","t","e">>

\* C20: a start that fails because the health wait timed out does not undo
\* its scaling request: when it returns the timeout error the desired
\* replica count is 1, and the count leaves 1 only by a stop that succeeds.
C20_NoRollback ==
    /\ [](StartReturned /\ ret.err = "timeout" =>
            /\ replicas = 1
            /\ [op |-> "start", n |-> 0] \notin scaleReqs)
    /\ [][WaitUntilHealthy /\ ret'.err = "timeout" =>
            replicas' = 1 /\ scaleReqs' = scaleReqs]_vars
    /\ [][replicas = 1 /\ replicas' # 1 =>
            Stop /\ ret'.kind = "Ok" /\ replicas' = 0]_vars

C20_Witness ==
    /\ StartReturned
    /\ ret.kind = "Err"
    /\ ret.err = "timeout"
    /\ ret.before = 0
    /\ ~call.everHealthy
    /\ replicas = 1
    /\ now >= deadline

----------------------------------------------------------------------------
(* expose_metric (SpecDesc) *)

\* C17: expose_metric takes one local port P from the free-port allocator,
\* launches kubectl port-forward pod/{stateful_set_name}-0 P:9101, with no
\* namespace flag, and returns P; it returns an error exactly when the child
\* could not be spawned, and returns P whatever has become of the child.
C17_ExposeMetric ==
    ret.op = "expose_metric" =>
        /\ ret.kind \in {"Ok", "Err"}
        /\ ret.kind = "Err" <=> ~obs.spawned
        /\ obs.polled = "none"
        /\ \E P \in FreePorts :
            /\ cmd.bin = <<"k","u","b","e","c","t","l">>
            /\ cmd.args =
                 << <<"p","o","r","t","-","f","o","r","w","a","r","d">>,
                    <<"p","o","d","/">> \o desc.stateful_set_name \o <<"-","0">>,
                    ToDecimal(P) \o <<":","9","1","0","1">> >>
            /\ ret.kind = "Ok" => val = <<P>>
        /\ \A i \in 1..Len(cmd.args) : cmd.args[i] # <<"-","n">>
        /\ ret.kind = "Ok" =>
                /\ Len(children) = 1
                /\ children[1].kind = "metric"
                /\ children[1].state \in {"starting", "serving", "exited"}
        /\ ret.kind = "Err" => val = <<>> /\ children = <<>>

C17_Witness ==
    /\ ret.op = "expose_metric"
    /\ ret.kind = "Ok"
    /\ val = <<40003>>
    /\ children[1].state = "exited"
    /\ desc.stateful_set_name = <<"v","a","l","i","d","a","t","o","r">>
    /\ cmd.args[3] = <<"4","0","0","0","3",":","9","1","0","1">>

----------------------------------------------------------------------------
(* The probes (SpecProbes) *)

\* C16: a health_check call sends one liveness request to the REST endpoint
\* and does not send another; it returns Ok exactly when that request was
\* answered, and HealthCheckError::Failure otherwise.
C16_HealthCheckOnce ==
    /\ [](ret.op = "health_check" =>
            /\ obs.requests = 1
            /\ ret.kind \in {"Ok", "Err"}
            /\ ret.kind = "Err" => ret.err = "Failure")
    /\ [][HealthCheckOp =>
            /\ obs'.requests = 1
            /\ url' = rest_api_endpoint(desc)
            /\ ret'.kind = "Ok" <=> healthy
            /\ ~healthy => ret'.kind = "Err" /\ ret'.err = "Failure"
            /\ healthy' = healthy
            /\ replicas' = replicas]_vars

C16_Witness ==
    /\ ret.op = "health_check"
    /\ ret.kind = "Err"
    /\ ret.err = "Failure"
    /\ obs.requests = 1
    /\ replicas = 1
    /\ url.host = <<"1","2","7",".","0",".","0",".","1">>

\* the counters object of the last call holds the name asked for
Keyed == fixture.name \in DOMAIN fixture.resp.map

\* what a counters object that maps name to w makes counter return
TypeError(name, w) == counter([kind |-> "object", map |-> [k \in {name} |-> w]], name)

\* C19 as stated: counter returns the number stored under the name; it fails
\* with a type error when the name maps to something that is not a number,
\* and with another error, an absence error, when the name is not a key.
C19_AbsenceErrorDistinct ==
    ret.op = "counter" /\ fixture.resp.kind = "object" =>
        /\ Keyed /\ fixture.resp.map[fixture.name] = JNumber(3, TRUE) =>
                ret.kind = "Ok" /\ val = <<3>>
        /\ Keyed /\ fixture.resp.map[fixture.name].t # "Number" =>
                ret.kind = "Err" /\ ret.err = "not_number"
        /\ ~Keyed =>
                /\ ret.kind = "Err"
                /\ \A w \in JsonValues : w.t # "Number" =>
                        ~(/\ TypeError(fixture.name, w).ret.kind = ret.kind
                          /\ TypeError(fixture.name, w).ret.err = ret.err
                          /\ TypeError(fixture.name, w).shown = fixture.shown)

\* C19, amended: counter returns the number stored under the name when
\* as_f64 gives it; a name that is not a key fails as a name that maps to
\* null does, with the error of a value that is not a number (the lookup of
\* a missing key gives null); so does every other value that is not a
\* number, and a body that is JSON but no object.
C19_CounterResult ==
    ret.op = "counter" =>
        LET v == IF fixture.resp.kind = "object" /\ Keyed
                 THEN fixture.resp.map[fixture.name] ELSE JNull
        IN  /\ fixture.resp.kind = "unreachable" =>
                    ret.kind = "Err" /\ ret.err = "http"
            /\ fixture.resp.kind = "not_json" =>
                    ret.kind = "Err" /\ ret.err = "decode"
            /\ fixture.resp.kind \in {"object", "array"} =>
                /\ v.t = "Number" /\ v.finite =>
                        ret.kind = "Ok" /\ val = <<v.n>>
                /\ v.t = "Number" /\ ~v.finite =>
                        ret.kind = "Err" /\ ret.err = "not_f64"
                /\ v.t # "Number" =>
                        /\ ret.kind = "Err"
                        /\ ret.err = "not_number"
                        /\ fixture.shown = v
                        /\ val = <<>>
                /\ ~Keyed =>
                        /\ TypeError(fixture.name, JNull).ret.kind = ret.kind
                        /\ TypeError(fixture.name, JNull).ret.err = ret.err
                        /\ TypeError(fixture.name, JNull).shown = fixture.shown
            /\ obs.requests = 1
            /\ url.valid
            /\ url.host = <<"l","o","c","a","l","h","o","s","t">>
            /\ url.path = <<"/","c","o","u","n","t","e","r","s">>

C19_Witness ==
    /\ ret.op = "counter"
    /\ fixture.resp.kind = "object"
    /\ fixture.resp.map # NoMap
    /\ ~Keyed
    /\ ret.kind = "Err"
    /\ ret.err = "not_number"
    /\ fixture.shown = JNull

----------------------------------------------------------------------------
(* The operations one after the other (SpecOps) *)

\* a step of a child itself, not of an operation of the node
ChildStep == ChildBinds \/ ChildExits

\* the children there were are all there still, each as it was
ChildrenKept ==
    /\ Len(children') >= Len(children)
    /\ \A i \in 1..Len(children) : children'[i] = children[i]

C18_DescriptorFrame ==
    /\ [][/\ desc' = desc
          /\ desc'.name = desc.name
          /\ desc'.stateful_set_name = desc.stateful_set_name
          /\ desc'.peer_id = desc.peer_id
          /\ desc'.index = desc.index
          /\ desc'.service_name = desc.service_name
          /\ desc'.namespace = desc.namespace
          /\ desc'.rest_api_port = desc.rest_api_port
          /\ desc'.haproxy_enabled = desc.haproxy_enabled
          /\ desc'.port_forward_enabled = desc.port_forward_enabled]_vars
    /\ [](ret.op \in {"rest_api_endpoint", "health_check"} /\ ret.kind # "Panic" =>
            /\ url.host = <<"1","2","7",".","0",".","0",".","1">>
            /\ url.port = <<40001>>)
    /\ [](ret.op = "inspection_service_endpoint" =>
            /\ url.host = <<"v","a","l","0">>
            /\ url.port = <<40001>>)

C18_Witness ==
    /\ pc = "idle"
    /\ ret.op = "rest_api_endpoint"
    /\ url.port = <<40001>>
    /\ Len(children) = 1
    /\ children[1].kind = "metric"
    /\ scaleReqs = {[op |-> "start", n |-> 1], [op |-> "stop", n |-> 0]}
    /\ desc = Descriptor(S_validator, S_val0, S_forge, 40001, TRUE, TRUE)

----------------------------------------------------------------------------
(* Two callers of spawn_port_forward at once (SpecFwd) *)

AllReturnedOk ==
    \A c \in Callers : fwd[c].pc = "returned" /\ fwd[c].kind = "Ok"

Serving == {i \in 1..Len(children) : children[i].state = "serving"}

\* C12: when the calls of spawn_port_forward made at the same time for the
\* same local port have all returned success, one forwarder child holds the
\* port and serves it, and every other child has exited.
C12_PortServedOnceReturned ==
    AllReturnedOk =>
        /\ Cardinality(Serving) = 1
        /\ \A i \in 1..Len(children) : children[i].state \in {"serving", "exited"}

====
